---- MODULE Spec2Model ----
(***************************************************************************)
(* Model of mood_tracker_app.py: the journal_entries table behind the      *)
(* process-wide cached psycopg2 connection, the Streamlit sessions that    *)
(* run the script against it, and the pure analytics functions.            *)
(*                                                                         *)
(* A Streamlit session runs the script top to bottom on every interaction, *)
(* each session in a thread of its own.  All sessions share the single     *)
(* connection object returned by init_db_connection (st.cache_resource),   *)
(* and therefore the single open transaction of that connection.  One     *)
(* step of the model is one call on the connection (a SELECT, an execute, *)
(* a commit, a rollback) together with the session-local code around it.  *)
(***************************************************************************)
EXTENDS Integers, Sequences, FiniteSets, TLC

VARIABLES
    committed,    \* journal_entries as of the last COMMIT
    working,      \* journal_entries as seen inside the connection's open transaction
    txn,          \* state of the connection's transaction: "ok" or "aborted"
    nextId,       \* next value of the SERIAL id column
    username,     \* st.session_state['username'] of each session (NoUser: not authenticated)
    has_history,  \* 'history_df' in st.session_state, per session
    history_df,   \* st.session_state.history_df, per session
    history_user, \* the user_id history_df was loaded for (the frame itself holds no
                  \* user: load_user_history drops the 'User ID' column)
    pc,           \* position of each session's script run
    req,          \* what triggered the session's script run: a "widget" or a "rerun"
    msgs,         \* reports issued in the session's current script run: "exception" (an
                  \* uncaught one), "warning" (load_user_history), "saved", "deleted",
                  \* "insert_error", "key_error", "delete_error" (st.error and its text)
    sidebar,      \* the Quick Stats drawn in the sidebar in the current script run
    inserted,     \* id of the row the session's INSERT wrote in the current run, else 0
    in_df,        \* analytics harness: a history handed to the pure functions
    in_today,     \* analytics harness: the value of date.today()
    out_streak,   \* analytics harness: result of calculate_streak
    phase,        \* analytics harness: "input" before the call, "done" after
    in_arg,       \* analytics harness: the other arguments of the function called
    out_val       \* analytics harness: what the function called returned

vars == << committed, working, txn, nextId, username, has_history, history_df, history_user,
           pc, req, msgs, sidebar, inserted, in_df, in_today, out_streak, phase,
           in_arg, out_val >>

dbVars == << committed, working, txn, nextId >>
sessionVars == << username, has_history, history_df, history_user, pc, req, msgs, sidebar, inserted >>
pureVars == << in_df, in_today, out_streak, phase, in_arg, out_val >>

----------------------------------------------------------------------------
(* Bounds of the model *)

MaxEntries == 2      \* rows the SERIAL id may number in one exploration
Today == 2           \* day number of date.today() in the session model
SlotsPerDay == 2     \* times of day told apart within one calendar day
MaxLen == 3          \* longest history handed to the pure functions
MaxDay == 4          \* last day number of the histories handed to the pure functions

Sessions == {"s1", "s2"}
Users == {"alice", "bob"}
NoUser == "nobody"

(* The 7 labels of the classifier, the columns joy_score .. neutral_score *)
Labels == {"joy", "sadness", "anger", "fear", "surprise", "disgust", "neutral"}

----------------------------------------------------------------------------
(* Dates: a timestamp is day * SlotsPerDay + slot; .dt.date drops the slot *)

dt_combine(day, slot) == day * SlotsPerDay + slot
dt_date(ts) == ts \div SlotsPerDay

----------------------------------------------------------------------------
(* calculate_streak *)

RECURSIVE SortedDesc(_)
SortedDesc(S) ==
    IF S = {} THEN << >>
    ELSE LET m == CHOOSE x \in S : \A y \in S : y <= x
         IN  << m >> \o SortedDesc(S \ {m})

UniqueDates(df) == { dt_date(df[i].Date) : i \in 1..Len(df) }

RECURSIVE CountConsecutive(_, _, _)
CountConsecutive(dates, i, streak) ==
    IF i > Len(dates) - 1 THEN streak
    ELSE IF dates[i] - dates[i + 1] = 1
         THEN CountConsecutive(dates, i + 1, streak + 1)
         ELSE streak

calculate_streak_unchecked(df, today) ==
    IF Len(df) = 0 THEN 0
    ELSE CountConsecutive(SortedDesc(UniqueDates(df)), 1, 1)

RECURSIVE CountAllUnitGaps(_, _, _)
CountAllUnitGaps(dates, i, streak) ==
    IF i > Len(dates) - 1 THEN streak
    ELSE CountAllUnitGaps(dates, i + 1,
                          IF dates[i] - dates[i + 1] = 1 THEN streak + 1 ELSE streak)

calculate_streak_no_break(df, today) ==
    IF Len(df) = 0 THEN 0
    ELSE LET dates == SortedDesc(UniqueDates(df))
         IN  IF dates[1] \notin {today, today - 1} THEN 0
             ELSE CountAllUnitGaps(dates, 1, 1)

(* the dates of the entries as they come, newest first, duplicates kept *)
calculate_streak_no_unique(df, today) ==
    IF Len(df) = 0 THEN 0
    ELSE LET dates == [ i \in 1..Len(df) |-> dt_date(df[i].Date) ]
         IN  IF dates[1] \notin {today, today - 1} THEN 0
             ELSE CountConsecutive(dates, 1, 1)

calculate_streak(df, today) ==
    IF Len(df) = 0 THEN 0
    ELSE LET dates == SortedDesc(UniqueDates(df))
             yesterday == today - 1
         IN  IF dates[1] \notin {today, yesterday} THEN 0
             ELSE CountConsecutive(dates, 1, 1)

----------------------------------------------------------------------------
(* The classifier and analyze_emotion.  A classifier outcome is either an  *)
(* exception or the pipeline's return value, a list holding one list of    *)
(* {label, score} records; scores are in tenths.                           *)

LabelOrder == << "joy", "sadness", "anger", "fear", "surprise", "disgust", "neutral" >>

FullResult(top) ==
    [ i \in 1..7 |-> [ label |-> LabelOrder[i],
                       score |-> IF LabelOrder[i] = top THEN 4 ELSE 1 ] ]

ClassifierOutcomes ==
    { [ raised |-> TRUE,  out |-> << >> ],
      [ raised |-> FALSE, out |-> << >> ],
      [ raised |-> FALSE, out |-> << << >> >> ],
      [ raised |-> FALSE, out |-> << SubSeq(FullResult("joy"), 1, 6) >> ],
      [ raised |-> FALSE, out |-> << SubSeq(FullResult("joy"), 1, 6)
                                      \o << [ label |-> "joy", score |-> 1 ] >> >> ],
      [ raised |-> FALSE, out |-> << FullResult("joy") >> ] }

FirstEntry(results) == results[1]

(* max(results, key=score): the first entry holding the largest score *)
MaxByScore(results) ==
    LET i == CHOOSE k \in 1..Len(results) :
                 /\ \A j \in 1..Len(results) : results[j].score <= results[k].score
                 /\ \A j \in 1..(k - 1) : results[j].score < results[k].score
    IN  results[i]

analyze_emotion(outcome) ==
    IF outcome.raised \/ Len(outcome.out) = 0 \/ Len(outcome.out[1]) = 0
    THEN [ exc |-> TRUE, label |-> "", score |-> 0, results |-> << >> ]
    ELSE LET results == outcome.out[1]
             top_emotion == MaxByScore(results)
         IN  [ exc |-> FALSE, label |-> top_emotion.label,
               score |-> top_emotion.score, results |-> results ]

(* entry_dict[f"{label.capitalize()}_Score"] = score, later items overwriting *)
ScoreKeys(results) == { results[i].label : i \in 1..Len(results) }

ScoreColumns(results) ==
    [ l \in ScoreKeys(results) |->
        LET last == CHOOSE k \in 1..Len(results) :
                        /\ results[k].label = l
                        /\ \A j \in (k + 1)..Len(results) : results[j].label # l
        IN  results[last].score ]

(* the lookups entry_dict['Joy_Score'] .. entry_dict['Neutral_Score'] raise KeyError *)
RaisesKeyError(results) == ~ (Labels \subseteq ScoreKeys(results))

----------------------------------------------------------------------------
(* The connection: every session calls the same cached connection, so all  *)
(* statements run in its one open transaction.                             *)

(* an execute raises when the transaction is aborted, and may raise anyway *)
ExecuteOutcomes == IF txn = "aborted" THEN {FALSE} ELSE {TRUE, FALSE}

(* conn.commit(): COMMIT of an aborted transaction is answered by ROLLBACK *)
Commit ==
    /\ committed' = IF txn = "ok" THEN working ELSE committed
    /\ working' = IF txn = "ok" THEN working ELSE committed
    /\ txn' = "ok"

RollbackOmitted ==
    /\ working' = working
    /\ txn' = txn
    /\ UNCHANGED committed

Rollback ==
    /\ working' = committed
    /\ txn' = "ok"
    /\ UNCHANGED committed

(* the row the INSERT of the submission writes *)
NewRow(id, user, ts, period_day, summary, a) ==
    [ id |-> id, user_id |-> user, entry_date |-> ts, period_day |-> period_day,
      summary |-> summary, emotion_label |-> a.label, confidence_score |-> a.score,
      scores |-> [ l \in Labels |-> ScoreColumns(a.results)[l] ] ]

(* a row of the DataFrame: the columns left after dropping id and User ID *)
DfRow(r) ==
    [ Date |-> r.entry_date, Period_Day |-> r.period_day, Summary |-> r.summary,
      Emotion_Label |-> r.emotion_label, Confidence_Score |-> r.confidence_score,
      Scores |-> r.scores ]

UserRows(table, user) == { r \in table : r.user_id = user }

(* SELECT * ... WHERE user_id = %s ORDER BY entry_date DESC: any order of   *)
(* the user's rows that is descending in entry_date                        *)
SelectOrders(rows) ==
    { f \in [ 1..Cardinality(rows) -> rows ] :
        /\ \A r \in rows : \E i \in 1..Cardinality(rows) : f[i] = r
        /\ \A i \in 1..(Cardinality(rows) - 1) : f[i].entry_date >= f[i + 1].entry_date }

SelectHistory(table, user) ==
    { [ i \in 1..Cardinality(UserRows(table, user)) |-> DfRow(f[i]) ] :
        f \in SelectOrders(UserRows(table, user)) }

EmptyFrame == << >>

(* load_user_history: the SELECT either returns the user's rows as the     *)
(* open transaction sees them, or raises; the except branch then returns   *)
(* an empty frame.  The function itself does not roll back; pandas' DBAPI  *)
(* fallback may roll the connection back before re-raising an execute      *)
(* error, so after a failure the transaction is either rolled back or left *)
(* aborted.                                                                *)
load_user_history(user) ==
    { [ ok |-> TRUE, df |-> d, rolled_back |-> FALSE ] :
        d \in IF txn = "ok" THEN SelectHistory(working, user) ELSE {} }
    \cup { [ ok |-> FALSE, df |-> EmptyFrame, rolled_back |-> b ] : b \in BOOLEAN }

(* what a call of load_user_history leaves of the connection *)
AfterLoad(res) ==
    /\ txn' = IF res.ok THEN txn ELSE IF res.rolled_back THEN "ok" ELSE "aborted"
    /\ working' = IF ~ res.ok /\ res.rolled_back THEN committed ELSE working
    /\ UNCHANGED << committed, nextId >>

(* get_insights(df)['total_entries'], 0 standing for "no insights" *)
total_entries(df) == IF Len(df) < 3 THEN 0 ELSE Len(df)

(* the sidebar's Quick Stats: nothing for an empty history, else the streak *)
(* and, when get_insights returns insights, the total                         *)
SidebarStats(df) ==
    IF Len(df) = 0
    THEN [ shown |-> FALSE, streak |-> 0, total |-> 0 ]
    ELSE [ shown |-> TRUE, streak |-> calculate_streak(df, Today),
           total |-> total_entries(df) ]

NoStats == [ shown |-> FALSE, streak |-> 0, total |-> 0 ]

----------------------------------------------------------------------------
(* Inputs of the session model *)

FormDays == { Today }                \* st.date_input, value="today"
FormSlots == { 0 }                   \* st.time_input
PeriodDays == { 1 }               \* st.slider, min_value=1, max_value=7
Summaries == { "", "cramps" }        \* st.text_area

Init ==
    /\ committed = {}
    /\ working = {}
    /\ txn = "ok"
    /\ nextId = 1
    /\ username = [ s \in Sessions |-> NoUser ]
    /\ has_history = [ s \in Sessions |-> FALSE ]
    /\ history_df = [ s \in Sessions |-> EmptyFrame ]
    /\ history_user = [ s \in Sessions |-> NoUser ]
    /\ pc = [ s \in Sessions |-> "idle" ]
    /\ req = [ s \in Sessions |-> "widget" ]
    /\ msgs = [ s \in Sessions |-> {} ]
    /\ sidebar = [ s \in Sessions |-> NoStats ]
    /\ inserted = [ s \in Sessions |-> 0 ]
    /\ in_df = << >>
    /\ in_today = 0
    /\ out_streak = 0
    /\ phase = "off"
    /\ in_arg = << >>
    /\ out_val = << >>

----------------------------------------------------------------------------
(* A script run.  Every run starts at the top of the file:                 *)
(* create_table_if_not_exists (execute, commit), load_users_from_db, the   *)
(* login check, then the authenticated section.                            *)

(* the authenticated section up to the sidebar: load the history when the  *)
(* session holds none, then draw the Quick Stats                           *)
ShowDashboard(s, user) ==
    IF has_history[s]
    THEN /\ sidebar' = [ sidebar EXCEPT ![s] = SidebarStats(history_df[s]) ]
         /\ msgs' = [ msgs EXCEPT ![s] = {} ]
         /\ UNCHANGED << has_history, history_df, history_user, dbVars >>
    ELSE \E res \in load_user_history(user) :
            /\ history_df' = [ history_df EXCEPT ![s] = res.df ]
            /\ history_user' = [ history_user EXCEPT ![s] = user ]
            /\ has_history' = [ has_history EXCEPT ![s] = TRUE ]
            /\ sidebar' = [ sidebar EXCEPT ![s] = SidebarStats(res.df) ]
            /\ msgs' = [ msgs EXCEPT ![s] = IF res.ok THEN {} ELSE {"warning"} ]
            /\ AfterLoad(res)

(* the user interacts (or st.rerun() was called); the run executes CREATE   *)
(* TABLE IF NOT EXISTS, and an exception there is uncaught and ends the    *)
(* run.  Which widget the user used shows where the script reaches it.     *)
StartRun(s) ==
    /\ pc[s] \in {"idle", "rerun"}
    /\ \E ok \in ExecuteOutcomes :
          /\ txn' = IF ok THEN txn ELSE "aborted"
          /\ pc' = [ pc EXCEPT ![s] = IF ok THEN "create_commit" ELSE "idle" ]
          /\ msgs' = [ msgs EXCEPT ![s] = IF ok THEN {} ELSE {"exception"} ]
          /\ req' = [ req EXCEPT ![s] = IF ok /\ pc[s] = "rerun" THEN "rerun" ELSE "widget" ]
    /\ sidebar' = [ sidebar EXCEPT ![s] = NoStats ]
    /\ inserted' = [ inserted EXCEPT ![s] = 0 ]
    /\ UNCHANGED << committed, working, nextId, username, has_history, history_df, history_user, pureVars >>

CreateCommit(s) ==
    /\ pc[s] = "create_commit"
    /\ Commit
    /\ pc' = [ pc EXCEPT ![s] = "load_users" ]
    /\ UNCHANGED << nextId, username, has_history, history_df, history_user, req, msgs, sidebar, inserted, pureVars >>

(* load_users_from_db: an exception is swallowed, nothing is rolled back *)
LoadUsers(s) ==
    /\ pc[s] = "load_users"
    /\ \E ok \in ExecuteOutcomes : txn' = IF ok THEN txn ELSE "aborted"
    /\ pc' = [ pc EXCEPT ![s] = "main" ]
    /\ UNCHANGED << committed, working, nextId, username, has_history, history_df, history_user,
                    req, msgs, sidebar, inserted, pureVars >>

(* authenticator.login succeeds for user u; the authenticated section runs *)
Login(s, u) ==
    /\ pc[s] = "main" /\ req[s] = "widget"
    /\ username[s] = NoUser
    /\ username' = [ username EXCEPT ![s] = u ]
    /\ ShowDashboard(s, u)
    /\ pc' = [ pc EXCEPT ![s] = "idle" ]
    /\ UNCHANGED << req, inserted, pureVars >>

(* authenticator.logout: the authentication keys leave the session state *)
Logout(s) ==
    /\ pc[s] = "main" /\ req[s] = "widget"
    /\ username[s] # NoUser
    /\ username' = [ username EXCEPT ![s] = NoUser ]
    /\ pc' = [ pc EXCEPT ![s] = "idle" ]
    /\ UNCHANGED << dbVars, has_history, history_df, history_user, req, msgs, sidebar, inserted, pureVars >>

(* any other interaction: the login page, or the dashboard *)
View(s) ==
    /\ pc[s] = "main"
    /\ IF username[s] = NoUser
       THEN UNCHANGED << dbVars, has_history, history_df, history_user, msgs, sidebar >>
       ELSE ShowDashboard(s, username[s])
    /\ pc' = [ pc EXCEPT ![s] = "idle" ]
    /\ req' = [ req EXCEPT ![s] = "widget" ]
    /\ UNCHANGED << username, inserted, pureVars >>

DeleteExecuteAllUsers(s) ==
    /\ pc[s] = "main" /\ req[s] = "widget"
    /\ username[s] # NoUser /\ has_history[s]
    /\ sidebar' = [ sidebar EXCEPT ![s] = SidebarStats(history_df[s]) ]
    /\ \E ok \in ExecuteOutcomes :
          /\ working' = IF ok THEN {} ELSE working
          /\ txn' = IF ok THEN txn ELSE "aborted"
          /\ pc' = [ pc EXCEPT ![s] = IF ok THEN "del_commit" ELSE "del_rollback" ]
    /\ UNCHANGED << committed, nextId, username, has_history, history_df, history_user, req, msgs, inserted, pureVars >>

(* Reset All Data: the sidebar is drawn, then delete_all_user_entries      *)
(* executes the DELETE                                                     *)
DeleteExecute(s) ==
    /\ pc[s] = "main" /\ req[s] = "widget"
    /\ username[s] # NoUser /\ has_history[s]
    /\ sidebar' = [ sidebar EXCEPT ![s] = SidebarStats(history_df[s]) ]
    /\ \E ok \in ExecuteOutcomes :
          /\ working' = IF ok THEN working \ UserRows(working, username[s]) ELSE working
          /\ txn' = IF ok THEN txn ELSE "aborted"
          /\ pc' = [ pc EXCEPT ![s] = IF ok THEN "del_commit" ELSE "del_rollback" ]
    /\ UNCHANGED << committed, nextId, username, has_history, history_df, history_user, req, msgs, inserted, pureVars >>

(* conn.commit(), st.success, the snapshot set to an empty frame, st.rerun *)
DeleteCommit(s) ==
    /\ pc[s] = "del_commit"
    /\ Commit
    /\ msgs' = [ msgs EXCEPT ![s] = @ \cup {"deleted"} ]
    /\ history_df' = [ history_df EXCEPT ![s] = EmptyFrame ]
    /\ history_user' = [ history_user EXCEPT ![s] = username[s] ]
    /\ pc' = [ pc EXCEPT ![s] = "rerun" ]
    /\ UNCHANGED << nextId, username, has_history, req, sidebar, inserted, pureVars >>

DeleteRollbackOmitted(s) ==
    /\ pc[s] = "del_rollback"
    /\ RollbackOmitted
    /\ msgs' = [ msgs EXCEPT ![s] = @ \cup {"delete_error"} ]
    /\ pc' = [ pc EXCEPT ![s] = "idle" ]
    /\ UNCHANGED << nextId, username, has_history, history_df, history_user, req, sidebar, inserted, pureVars >>

(* except: conn.rollback(); then st.error with the error text *)
DeleteRollback(s) ==
    /\ pc[s] = "del_rollback"
    /\ Rollback
    /\ msgs' = [ msgs EXCEPT ![s] = @ \cup {"delete_error"} ]
    /\ pc' = [ pc EXCEPT ![s] = "idle" ]
    /\ UNCHANGED << nextId, username, has_history, history_df, history_user, req, sidebar, inserted, pureVars >>

(* the form is submitted with an empty text: `submit_button and            *)
(* user_summary` is false and the run only renders                         *)
SubmitNothing(s) ==
    /\ pc[s] = "main" /\ req[s] = "widget"
    /\ username[s] # NoUser /\ has_history[s]
    /\ "" \in Summaries
    /\ sidebar' = [ sidebar EXCEPT ![s] = SidebarStats(history_df[s]) ]
    /\ pc' = [ pc EXCEPT ![s] = "idle" ]
    /\ UNCHANGED << dbVars, username, has_history, history_df, history_user, req, msgs, inserted, pureVars >>

(* analyze_emotion raises (the classifier raised, or returned an empty     *)
(* result): the exception is uncaught and ends the run                     *)
SubmitClassifierRaises(s) ==
    /\ pc[s] = "main" /\ req[s] = "widget"
    /\ username[s] # NoUser /\ has_history[s]
    /\ \E outcome \in ClassifierOutcomes : analyze_emotion(outcome).exc
    /\ sidebar' = [ sidebar EXCEPT ![s] = SidebarStats(history_df[s]) ]
    /\ msgs' = [ msgs EXCEPT ![s] = {"exception"} ]
    /\ pc' = [ pc EXCEPT ![s] = "idle" ]
    /\ UNCHANGED << dbVars, username, has_history, history_df, history_user, req, inserted, pureVars >>

SubmitKeyErrorSaves(s) ==
    /\ pc[s] = "main" /\ req[s] = "widget"
    /\ username[s] # NoUser /\ has_history[s]
    /\ nextId <= MaxEntries
    /\ sidebar' = [ sidebar EXCEPT ![s] = SidebarStats(history_df[s]) ]
    /\ \E outcome \in ClassifierOutcomes, day \in FormDays, slot \in FormSlots,
          period_day \in PeriodDays, summary \in Summaries \ {""} :
          LET a == analyze_emotion(outcome)
              full == [ a EXCEPT !.results = FullResult(a.label) ]
          IN  /\ ~ a.exc
              /\ RaisesKeyError(a.results)
              /\ working' = working \cup { NewRow(nextId, username[s],
                                  dt_combine(day, slot), period_day, summary, full) }
    /\ nextId' = nextId + 1
    /\ inserted' = [ inserted EXCEPT ![s] = nextId ]
    /\ pc' = [ pc EXCEPT ![s] = "ins_commit" ]
    /\ UNCHANGED << committed, txn, username, has_history, history_df, history_user, req, msgs, pureVars >>

(* a label is missing from the result: the KeyError is raised inside the   *)
(* try block before the INSERT and caught: st.error, conn.rollback()       *)
SubmitKeyError(s) ==
    /\ pc[s] = "main" /\ req[s] = "widget"
    /\ username[s] # NoUser /\ has_history[s]
    /\ \E outcome \in ClassifierOutcomes :
          /\ ~ analyze_emotion(outcome).exc
          /\ RaisesKeyError(analyze_emotion(outcome).results)
    /\ sidebar' = [ sidebar EXCEPT ![s] = SidebarStats(history_df[s]) ]
    /\ msgs' = [ msgs EXCEPT ![s] = {"key_error"} ]
    /\ Rollback
    /\ pc' = [ pc EXCEPT ![s] = "idle" ]
    /\ UNCHANGED << nextId, username, has_history, history_df, history_user, req, inserted, pureVars >>

(* the classifier returns all labels: the sidebar was drawn from the       *)
(* snapshot as it was, and the INSERT is executed                          *)
SubmitInsert(s) ==
    /\ pc[s] = "main" /\ req[s] = "widget"
    /\ username[s] # NoUser /\ has_history[s]
    /\ nextId <= MaxEntries
    /\ sidebar' = [ sidebar EXCEPT ![s] = SidebarStats(history_df[s]) ]
    /\ \E outcome \in ClassifierOutcomes, day \in FormDays, slot \in FormSlots,
          period_day \in PeriodDays, summary \in Summaries \ {""},
          ok \in ExecuteOutcomes :
          LET a == analyze_emotion(outcome)
          IN  /\ ~ a.exc
              /\ ~ RaisesKeyError(a.results)
              /\ working' = IF ok
                            THEN working \cup { NewRow(nextId, username[s],
                                     dt_combine(day, slot), period_day, summary, a) }
                            ELSE working
              /\ nextId' = IF ok THEN nextId + 1 ELSE nextId
              /\ inserted' = [ inserted EXCEPT ![s] = IF ok THEN nextId ELSE 0 ]
              /\ txn' = IF ok THEN txn ELSE "aborted"
              /\ pc' = [ pc EXCEPT ![s] = IF ok THEN "ins_commit" ELSE "ins_rollback" ]
    /\ UNCHANGED << committed, username, has_history, history_df, history_user, req, msgs, pureVars >>

InsertCommit(s) ==
    /\ pc[s] = "ins_commit"
    /\ Commit
    /\ pc' = [ pc EXCEPT ![s] = "ins_reload" ]
    /\ UNCHANGED << nextId, username, has_history, history_df, history_user, req, msgs, sidebar, inserted, pureVars >>

(* st.session_state.history_df = load_user_history(...); st.success *)
InsertReload(s) ==
    /\ pc[s] = "ins_reload"
    /\ \E res \in load_user_history(username[s]) :
          /\ history_df' = [ history_df EXCEPT ![s] = res.df ]
          /\ history_user' = [ history_user EXCEPT ![s] = username[s] ]
          /\ msgs' = [ msgs EXCEPT ![s] =
                         @ \cup (IF res.ok THEN {} ELSE {"warning"}) \cup {"saved"} ]
          /\ AfterLoad(res)
    /\ has_history' = [ has_history EXCEPT ![s] = TRUE ]
    /\ pc' = [ pc EXCEPT ![s] = "idle" ]
    /\ UNCHANGED << username, req, sidebar, inserted, pureVars >>

(* except: st.error with the error text, conn.rollback() *)
InsertRollback(s) ==
    /\ pc[s] = "ins_rollback"
    /\ msgs' = [ msgs EXCEPT ![s] = @ \cup {"insert_error"} ]
    /\ Rollback
    /\ pc' = [ pc EXCEPT ![s] = "idle" ]
    /\ UNCHANGED << nextId, username, has_history, history_df, history_user, req, sidebar, inserted, pureVars >>

Next ==
    \/ \E s \in Sessions : StartRun(s)
    \/ \E s \in Sessions : CreateCommit(s)
    \/ \E s \in Sessions : LoadUsers(s)
    \/ \E s \in Sessions, u \in Users : Login(s, u)
    \/ \E s \in Sessions : Logout(s)
    \/ \E s \in Sessions : View(s)
    \/ \E s \in Sessions : DeleteExecute(s)
    \/ \E s \in Sessions : DeleteCommit(s)
    \/ \E s \in Sessions : DeleteRollback(s)
    \/ \E s \in Sessions : SubmitNothing(s)
    \/ \E s \in Sessions : SubmitClassifierRaises(s)
    \/ \E s \in Sessions : SubmitKeyError(s)
    \/ \E s \in Sessions : SubmitInsert(s)
    \/ \E s \in Sessions : InsertCommit(s)
    \/ \E s \in Sessions : InsertReload(s)
    \/ \E s \in Sessions : InsertRollback(s)

Spec == Init /\ [][Next]_vars

----------------------------------------------------------------------------
(* The analytics functions on their own: a history as load_user_history    *)
(* returns it (newest first) and a current date are drawn, and the         *)
(* function is called.                                                     *)

PureTimestamps == 0..((MaxDay + 1) * SlotsPerDay - 1)

PureRow(ts) ==
    [ Date |-> ts, Period_Day |-> 1, Summary |-> "cramps", Emotion_Label |-> "joy",
      Confidence_Score |-> 4, Scores |-> [ l \in Labels |-> IF l = "joy" THEN 4 ELSE 1 ] ]

PureHistories ==
    { [ i \in 1..Len(q) |-> PureRow(q[i]) ] :
        q \in { t \in UNION { [ 1..n -> PureTimestamps ] : n \in 0..MaxLen } :
                  \A i \in 1..(Len(t) - 1) : t[i] >= t[i + 1] } }

InitStreak ==
    /\ committed = {}
    /\ working = {}
    /\ txn = "ok"
    /\ nextId = 1
    /\ username = [ s \in Sessions |-> NoUser ]
    /\ has_history = [ s \in Sessions |-> FALSE ]
    /\ history_df = [ s \in Sessions |-> EmptyFrame ]
    /\ history_user = [ s \in Sessions |-> NoUser ]
    /\ pc = [ s \in Sessions |-> "idle" ]
    /\ req = [ s \in Sessions |-> "widget" ]
    /\ msgs = [ s \in Sessions |-> {} ]
    /\ sidebar = [ s \in Sessions |-> NoStats ]
    /\ inserted = [ s \in Sessions |-> 0 ]
    /\ in_df \in PureHistories
    /\ in_today \in (MaxDay - 2)..MaxDay
    /\ out_streak = 0
    /\ phase = "input"
    /\ in_arg = << >>
    /\ out_val = << >>

CallStreak ==
    /\ phase = "input"
    /\ out_streak' = calculate_streak(in_df, in_today)
    /\ phase' = "done"
    /\ UNCHANGED << dbVars, sessionVars, in_df, in_today, in_arg, out_val >>

NextStreak == CallStreak

SpecStreak == InitStreak /\ [][NextStreak]_vars

----------------------------------------------------------------------------
(* Claims about calculate_streak, under SpecStreak *)

InDates == UniqueDates(in_df)
LatestDate == CHOOSE d \in InDates : \A e \in InDates : e <= d

(* the number of days d, d-1, d-2, ... that are all in S, d being in S *)
RunEndingAt(S, d) ==
    CHOOSE k \in 1..Cardinality(S) :
        /\ \A j \in 0..(k - 1) : (d - j) \in S
        /\ (d - k) \notin S

(* C2: when the most recent distinct date of the history is today or       *)
(* yesterday, calculate_streak returns the length of the maximal run of    *)
(* distinct dates going back from it in steps of exactly one day; dates    *)
(* {D, D-2} with current date D give 1.                                    *)
C2_StreakIsRunFromLatest ==
    (phase = "done" /\ in_df # << >> /\ LatestDate \in {in_today, in_today - 1})
        => /\ out_streak = RunEndingAt(InDates, LatestDate)
           /\ InDates = {in_today, in_today - 2} => out_streak = 1

(* C2 witness: entries on D, D-1, D-2 with current date D give 3 *)
C2_Witness ==
    /\ phase = "done"
    /\ InDates = {in_today, in_today - 1, in_today - 2}
    /\ out_streak = 3

DaysInARow(S, today) ==
    IF today \in S THEN RunEndingAt(S, today)
    ELSE IF (today - 1) \in S THEN RunEndingAt(S, today - 1)
    ELSE 0

(* C4 as claimed: for every history, entries dated in the future included, *)
(* the streak is the count of consecutive calendar days ending at today or *)
(* yesterday that each have an entry.                                      *)
C4_StreakCountsDaysInARow ==
    phase = "done" => out_streak = DaysInARow(InDates, in_today)

(* the history that holds one entry, at the first time of the day, on each *)
(* date of S                                                               *)
OneEntryPerDate(S) ==
    [ i \in 1..Cardinality(S) |-> PureRow(dt_combine(SortedDesc(S)[i], 0)) ]

(* C20: calculate_streak depends only on the set of calendar dates of the  *)
(* entries: whatever the times of day and however many entries a date has, *)
(* a history gets the streak of the history that holds one entry on each   *)
(* of its dates, so histories with the same dates get the same streak.     *)
C20_StreakDependsOnDatesOnly ==
    phase = "done" => calculate_streak(OneEntryPerDate(InDates), in_today) = out_streak

(* C20 witness: two entries at different times of today and one yesterday  *)
(* give a streak of 2                                                      *)
C20_Witness ==
    /\ phase = "done"
    /\ Len(in_df) = 3
    /\ dt_date(in_df[1].Date) = in_today
    /\ dt_date(in_df[2].Date) = in_today
    /\ in_df[1].Date # in_df[2].Date
    /\ dt_date(in_df[3].Date) = in_today - 1
    /\ out_streak = 2

----------------------------------------------------------------------------
(* Claims about the sessions and the Entry Store, under Spec *)

(* no script run is in progress and the connection holds no open work *)
Quiescent ==
    /\ \A s \in Sessions : pc[s] = "idle"
    /\ txn = "ok"
    /\ working = committed

(* C1 as claimed: whenever no run is in progress, the snapshot of every    *)
(* logged-in session holds exactly the entries the Entry Store holds for   *)
(* the session's user.                                                     *)
C1_SnapshotEqualsStore ==
    Quiescent =>
        \A s \in Sessions :
            (username[s] # NoUser /\ has_history[s])
                => history_df[s] \in SelectHistory(committed, username[s])

(* session s takes a step of its script run *)
Moves(s, from, to) == pc[s] \in from /\ pc'[s] \in to

(* C5: when the INSERT of a submission or the DELETE of a bulk wipe fails, *)
(* the failing execute and the except branch that follows leave the Entry  *)
(* Store as it was, the transaction is rolled back, the error is reported  *)
(* (and no success), and the session's snapshot is as before.              *)
C5_FailedWriteRollsBack ==
    [][ \A s \in Sessions :
          /\ Moves(s, {"main"}, {"ins_rollback", "del_rollback"})
                => /\ committed' = committed
                   /\ working' = working
                   /\ history_df'[s] = history_df[s]
          /\ Moves(s, {"ins_rollback", "del_rollback"}, {"idle"})
                => /\ committed' = committed
                   /\ working' = committed
                   /\ txn' = "ok"
                   /\ history_df'[s] = history_df[s]
                   /\ has_history'[s] = has_history[s]
                   /\ (pc[s] = "ins_rollback") => "insert_error" \in msgs'[s]
                   /\ (pc[s] = "del_rollback") => "delete_error" \in msgs'[s]
                   /\ msgs'[s] \cap {"saved", "deleted"} = {}
      ]_vars

(* C5 witness: a failed INSERT was reported to a session that holds a      *)
(* snapshot, the store holding rows                                        *)
C5_Witness ==
    \E s \in Sessions :
        /\ pc[s] = "idle"
        /\ "insert_error" \in msgs[s]
        /\ history_df[s] # << >>
        /\ committed # {}
        /\ txn = "ok"

(* the classifier raised, returned an empty result, or a result that lacks *)
(* one of the 7 labels                                                     *)
BadOutcome(o) ==
    \/ o.raised
    \/ Len(o.out) = 0
    \/ Len(o.out[1]) = 0
    \/ \E l \in Labels : \A i \in 1..Len(o.out[1]) : o.out[1][i].label # l

(* C6: a submission whose classification raises, is empty or lacks a label *)
(* never reaches the INSERT: its step stores no row, committed or not,     *)
(* leaves the snapshot unchanged and ends the run.                         *)
C6_ClassifierFailureStoresNothing ==
    [][ /\ \A o \in ClassifierOutcomes :
              BadOutcome(o) <=> (analyze_emotion(o).exc
                                   \/ RaisesKeyError(analyze_emotion(o).results))
        /\ \A s \in Sessions :
              (SubmitClassifierRaises(s) \/ SubmitKeyError(s))
                  => /\ committed' = committed
                     /\ working' \subseteq (working \cup committed)
                     /\ nextId' = nextId
                     /\ inserted'[s] = 0
                     /\ history_df'[s] = history_df[s]
                     /\ pc'[s] = "idle"
                     /\ "saved" \notin msgs'[s]
      ]_vars

(* C6 witness: a session holding a snapshot was told of the missing label, *)
(* the store holding rows                                                  *)
C6_Witness ==
    \E s \in Sessions :
        /\ pc[s] = "idle"
        /\ "key_error" \in msgs[s]
        /\ history_df[s] # << >>
        /\ committed # {}

(* C7 as claimed: a failed load (the warning of load_user_history) leaves  *)
(* the session's snapshot as it was.                                       *)
C7_FailedLoadKeepsSnapshot ==
    [][ \A s \in Sessions :
          ("warning" \in msgs'[s] /\ "warning" \notin msgs[s])
              => history_df'[s] = history_df[s]
      ]_vars

(* C8 as claimed: the commit a submission issues makes the row of its own  *)
(* INSERT durable, whatever the other session did on the connection in     *)
(* between.                                                                *)
C8_CommitStoresOwnRow ==
    [][ \A s \in Sessions :
          Moves(s, {"ins_commit"}, {"ins_reload"})
              => \E r \in committed' : r.id = inserted[s]
      ]_vars

(* C9: a stored row is never modified; a row leaves the store only through *)
(* a DELETE executed by a session of the row's own user; the DELETE removes *)
(* exactly the rows of that user; a submission adds one row, of the        *)
(* submitting user.                                                        *)
C9_RowsImmutableAndOwnerDeleted ==
    [][ /\ \A r \in committed \cup working : \A q \in committed' \cup working' :
              r.id = q.id => r = q
        /\ \A r \in committed \ committed' :
              \E t \in Sessions : pc[t] = "del_commit" /\ username[t] = r.user_id
        /\ \A r \in committed' \ committed : r \in working
        /\ \A s \in Sessions :
              /\ Moves(s, {"main"}, {"del_commit"})
                    => working' = { r \in working : r.user_id # username[s] }
              /\ Moves(s, {"main"}, {"ins_commit"})
                    => \E r \in working' \ working :
                          /\ working' = working \cup {r}
                          /\ r.user_id = username[s]
        /\ (\A s \in Sessions : ~ Moves(s, {"main"}, {"del_commit", "ins_commit"}))
              => working' \in {working, committed, committed'}
      ]_vars

(* C9 witness: alice's bulk delete has committed, alice had entries, and   *)
(* bob's row is still stored                                               *)
C9_Witness ==
    \E s \in Sessions :
        /\ pc[s] = "rerun"
        /\ "deleted" \in msgs[s]
        /\ username[s] = "alice"
        /\ sidebar[s].shown
        /\ \E r \in committed : r.user_id = "bob"
        /\ \A r \in committed : r.user_id # "alice"

(* C10 as claimed: at the end of the cycle of a successful submission, the *)
(* statistics drawn in the sidebar are those of the reloaded history.      *)
C10_SidebarFromReloadedHistory ==
    \A s \in Sessions :
        (pc[s] = "idle" /\ "saved" \in msgs[s] /\ "warning" \notin msgs[s])
            => sidebar[s] = SidebarStats(history_df[s])

----------------------------------------------------------------------------
(* get_insights *)

NoDay == 0           \* a NULL period_day, NaN in the DataFrame

(* Series.mode() lists the most frequent values in sorted order *)
AlphaOrder == << "anger", "disgust", "fear", "joy", "neutral", "sadness", "surprise" >>

LabelCount(df, l) == Cardinality({ i \in 1..Len(df) : df[i].Emotion_Label = l })

EmotionLeastCommon(df) ==
    LET IsRarest(l) == /\ LabelCount(df, l) > 0
                       /\ \A m \in Labels :
                             LabelCount(df, m) > 0 => LabelCount(df, l) <= LabelCount(df, m)
    IN  SelectSeq(AlphaOrder, IsRarest)

(* the most frequent labels in the order of their first entry in the frame *)
EmotionModeFirstEncountered(df) ==
    LET IsMode(l) == /\ LabelCount(df, l) > 0
                     /\ \A m \in Labels : LabelCount(df, m) <= LabelCount(df, l)
        firstModes == SelectSeq([ i \in 1..Len(df) |-> df[i].Emotion_Label ], IsMode)
    IN  IF firstModes = << >> THEN << >> ELSE << firstModes[1] >>

(* df['Emotion Label'].mode() *)
EmotionMode(df) ==
    LET IsMode(l) == /\ LabelCount(df, l) > 0
                     /\ \A m \in Labels : LabelCount(df, m) <= LabelCount(df, l)
    IN  SelectSeq(AlphaOrder, IsMode)

(* the keys of df.groupby('Period Day'): NaN keys are dropped *)
DayGroups(df) == { df[i].Period_Day : i \in 1..Len(df) } \ {NoDay}

GroupRows(df, g) == { i \in 1..Len(df) : df[i].Period_Day = g }

RECURSIVE SumConfidence(_, _)
SumConfidence(df, I) ==
    IF I = {} THEN 0
    ELSE LET i == CHOOSE k \in I : TRUE
         IN  df[i].Confidence_Score + SumConfidence(df, I \ {i})

(* mean of group g < mean of group h, the means compared as fractions *)
MeanLess(df, g, h) ==
    SumConfidence(df, GroupRows(df, g)) * Cardinality(GroupRows(df, h))
        < SumConfidence(df, GroupRows(df, h)) * Cardinality(GroupRows(df, g))

best_day_by_sum(df) ==
    IF DayGroups(df) = {} THEN NoDay
    ELSE CHOOSE g \in DayGroups(df) :
            \A h \in DayGroups(df) :
                /\ SumConfidence(df, GroupRows(df, h)) <= SumConfidence(df, GroupRows(df, g))
                /\ h < g => SumConfidence(df, GroupRows(df, h)) < SumConfidence(df, GroupRows(df, g))

(* int(day_avg.idxmax()) if not day_avg.empty else None: the first key, in *)
(* ascending order, that holds the largest mean                            *)
best_day(df) ==
    IF DayGroups(df) = {} THEN NoDay
    ELSE CHOOSE g \in DayGroups(df) :
            \A h \in DayGroups(df) :
                /\ ~ MeanLess(df, g, h)
                /\ h < g => MeanLess(df, h, g)

NoInsights ==
    [ none |-> TRUE, most_common_emotion |-> "None", best_day |-> NoDay, total_entries |-> 0 ]

get_insights_empty_only(df) ==
    IF Len(df) = 0 THEN NoInsights
    ELSE [ none |-> FALSE,
           most_common_emotion |-> IF Len(EmotionMode(df)) > 0 THEN EmotionMode(df)[1] ELSE "None",
           best_day |-> best_day(df),
           total_entries |-> Len(df) ]

get_insights(df) ==
    IF Len(df) = 0 \/ Len(df) < 3 THEN NoInsights
    ELSE [ none |-> FALSE,
           most_common_emotion |-> IF Len(EmotionMode(df)) > 0 THEN EmotionMode(df)[1] ELSE "None",
           best_day |-> best_day(df),
           total_entries |-> Len(df) ]

----------------------------------------------------------------------------
(* The harness of get_insights: histories of up to MaxLen entries that      *)
(* differ in label, cycle day and confidence.                              *)

(* the store and the sessions as they are before any script run *)
StoreAndSessionsAtStart ==
    /\ committed = {}
    /\ working = {}
    /\ txn = "ok"
    /\ nextId = 1
    /\ username = [ s \in Sessions |-> NoUser ]
    /\ has_history = [ s \in Sessions |-> FALSE ]
    /\ history_df = [ s \in Sessions |-> EmptyFrame ]
    /\ history_user = [ s \in Sessions |-> NoUser ]
    /\ pc = [ s \in Sessions |-> "idle" ]
    /\ req = [ s \in Sessions |-> "widget" ]
    /\ msgs = [ s \in Sessions |-> {} ]
    /\ sidebar = [ s \in Sessions |-> NoStats ]
    /\ inserted = [ s \in Sessions |-> 0 ]

InsightLabels == { "joy", "sadness", "anger" }
InsightDays == { NoDay, 1, 7 }
InsightConfidences == { 3, 4 }

InsightRow(label, day, conf) ==
    [ Date |-> dt_combine(Today, 0), Period_Day |-> day, Summary |-> "cramps",
      Emotion_Label |-> label, Confidence_Score |-> conf,
      Scores |-> [ l \in Labels |-> IF l = label THEN conf ELSE 1 ] ]

InsightRows ==
    { InsightRow(l, d, c) : l \in InsightLabels, d \in InsightDays, c \in InsightConfidences }

InsightHistories == UNION { [ 1..n -> InsightRows ] : n \in 0..MaxLen }

InitInsights ==
    /\ StoreAndSessionsAtStart
    /\ in_df \in InsightHistories
    /\ in_today = Today
    /\ out_streak = 0
    /\ phase = "input"
    /\ in_arg = << >>
    /\ out_val = NoInsights

CallInsights ==
    /\ phase = "input"
    /\ out_val' = get_insights(in_df)
    /\ phase' = "done"
    /\ UNCHANGED << dbVars, sessionVars, in_df, in_today, out_streak, in_arg >>

NextInsights == CallInsights

SpecInsights == InitInsights /\ [][NextInsights]_vars

----------------------------------------------------------------------------
(* Claims about get_insights, under SpecInsights *)

InLabels == [ i \in 1..Len(in_df) |-> in_df[i].Emotion_Label ]

(* C11: get_insights returns None for every history with fewer than 3      *)
(* entries, the empty one included, whatever the entries hold.             *)
C11_NoInsightBelowThree ==
    (phase = "done" /\ Len(in_df) < 3) => out_val = NoInsights

(* C11 witness: two entries of different labels, days and confidences *)
C11_Witness ==
    /\ phase = "done"
    /\ Len(in_df) = 2
    /\ in_df[1].Emotion_Label # in_df[2].Emotion_Label
    /\ in_df[1].Period_Day = 1 /\ in_df[2].Period_Day = 7
    /\ in_df[1].Confidence_Score # in_df[2].Confidence_Score
    /\ out_val.none

(* C12: for a history of at least 3 entries, total_entries is the number   *)
(* of entries, and a label that occurs strictly more often than every      *)
(* other label is the most_common_emotion; [joy, joy, sadness] gives joy.  *)
C12_MostCommonAndTotal ==
    (phase = "done" /\ Len(in_df) >= 3)
        => /\ ~ out_val.none
           /\ out_val.total_entries = Len(in_df)
           /\ \A l \in Labels :
                 (\A m \in Labels \ {l} : LabelCount(in_df, m) < LabelCount(in_df, l))
                     => out_val.most_common_emotion = l
           /\ InLabels = << "joy", "joy", "sadness" >> => out_val.most_common_emotion = "joy"

(* C12 witness: [joy, joy, sadness] gave joy and a total of 3 *)
C12_Witness ==
    /\ phase = "done"
    /\ InLabels = << "joy", "joy", "sadness" >>
    /\ out_val.most_common_emotion = "joy"
    /\ out_val.total_entries = 3

----------------------------------------------------------------------------
(* The history section of the page: the grouped bar chart is drawn from    *)
(* period_agg, the mean of every score column per cycle day.  A mean is     *)
(* kept as the sum and the number of the values it averages.               *)

RECURSIVE SumScore(_, _, _)
SumScore(df, I, l) ==
    IF I = {} THEN 0
    ELSE LET i == CHOOSE k \in I : TRUE
         IN  df[i].Scores[l] + SumScore(df, I \ {i}, l)

AllRows(df, g) == 1..Len(df)

(* the rows melted_df.groupby(['Period Day', 'Emotion']) puts under day g *)
MeltedRows(df, g) == { i \in 1..Len(df) : df[i].Period_Day = g }

period_agg(plot_df) ==
    [ g \in { plot_df[i].Period_Day : i \in 1..Len(plot_df) } |->
        [ l \in Labels |-> [ sum |-> SumScore(plot_df, MeltedRows(plot_df, g), l),
                             count |-> Cardinality(MeltedRows(plot_df, g)) ] ] ]

NoAggregation == << >>

(* section 4 of the page: skipped for an empty history; the chart with at  *)
(* least 2 entries (the score columns are always there), else st.info;     *)
(* astype(int) raises on a NULL cycle day                                  *)
history_section(df) ==
    IF Len(df) = 0 THEN [ shown |-> "nothing", period_agg |-> NoAggregation ]
    ELSE IF Len(df) >= 2
         THEN IF \E i \in 1..Len(df) : df[i].Period_Day = NoDay
              THEN [ shown |-> "exception", period_agg |-> NoAggregation ]
              ELSE [ shown |-> "chart", period_agg |-> period_agg(df) ]
         ELSE [ shown |-> "insufficient_data", period_agg |-> NoAggregation ]

(* the harness: histories whose entries carry a cycle day, as the slider   *)
(* gives every stored entry one                                            *)
StoredHistories ==
    { h \in InsightHistories : \A i \in 1..Len(h) : h[i].Period_Day # NoDay }

InitHistorySection ==
    /\ StoreAndSessionsAtStart
    /\ in_df \in StoredHistories
    /\ in_today = Today
    /\ out_streak = 0
    /\ phase = "input"
    /\ in_arg = << >>
    /\ out_val = [ shown |-> "nothing", period_agg |-> NoAggregation ]

CallHistorySection ==
    /\ phase = "input"
    /\ out_val' = history_section(in_df)
    /\ phase' = "done"
    /\ UNCHANGED << dbVars, sessionVars, in_df, in_today, out_streak, in_arg >>

NextHistorySection == CallHistorySection

SpecHistorySection == InitHistorySection /\ [][NextHistorySection]_vars

----------------------------------------------------------------------------
(* Claims about the cycle-day aggregation, under SpecHistorySection *)

(* the sum of label l's score over the entries 1..i of df that are on day d *)
RECURSIVE ScoreSumUpTo(_, _, _, _)
ScoreSumUpTo(df, i, d, l) ==
    IF i = 0 THEN 0
    ELSE ScoreSumUpTo(df, i - 1, d, l)
            + (IF df[i].Period_Day = d THEN df[i].Scores[l] ELSE 0)

(* the table holds, for exactly the cycle days present and each of the 7   *)
(* labels, the mean of the label's score over the entries of that day      *)
AggregationIsPerDayMean ==
    /\ DOMAIN out_val.period_agg = { in_df[i].Period_Day : i \in 1..Len(in_df) }
    /\ \A d \in DOMAIN out_val.period_agg :
          /\ DOMAIN out_val.period_agg[d] = Labels
          /\ \A l \in Labels :
                /\ out_val.period_agg[d][l].sum = ScoreSumUpTo(in_df, Len(in_df), d, l)
                /\ out_val.period_agg[d][l].count
                      = Cardinality({ i \in 1..Len(in_df) : in_df[i].Period_Day = d })

----------------------------------------------------------------------------
(* The harness of analyze_emotion and of the row the submission stores:    *)
(* the classifier returns all 7 labels, in some order, with scores in      *)
(* tenths.                                                                 *)

MaxScore == 3        \* largest score (in tenths) the drawn results hold

ResultOrders ==
    { [ i \in 1..7 |-> LabelOrder[((i + k - 1) % 7) + 1] ] : k \in {0, 3} }
        \cup { [ i \in 1..7 |-> LabelOrder[8 - i] ] }

ClassifierResults ==
    { [ i \in 1..7 |-> [ label |-> order[i], score |-> sc[order[i]] ] ] :
        order \in ResultOrders, sc \in [ Labels -> 1..MaxScore ] }

InitAnalyze ==
    /\ StoreAndSessionsAtStart
    /\ in_df = << >>
    /\ in_today = Today
    /\ out_streak = 0
    /\ phase = "input"
    /\ in_arg \in { [ raised |-> FALSE, out |-> << r >> ] : r \in ClassifierResults }
    /\ out_val = << >>

(* analyze_emotion(user_summary, emotion_analyzer), then the data tuple of *)
(* the INSERT built from its result                                        *)
CallAnalyze ==
    /\ phase = "input"
    /\ LET a == analyze_emotion(in_arg)
       IN  out_val' = [ a |-> a,
                        data |-> NewRow(1, "alice", dt_combine(Today, 0), 1, "cramps", a) ]
    /\ phase' = "done"
    /\ UNCHANGED << dbVars, sessionVars, in_df, in_today, out_streak, in_arg >>

NextAnalyze == CallAnalyze

SpecAnalyze == InitAnalyze /\ [][NextAnalyze]_vars

----------------------------------------------------------------------------
(* Claims about analyze_emotion, under SpecAnalyze *)

InResults == in_arg.out[1]

(* C15: analyze_emotion returns as dominant label and score an entry of    *)
(* the classifier's result whose score is the largest of the result, and   *)
(* the list of per-label scores unchanged; the row stored holds the        *)
(* dominant label and score and, in each of the 7 score columns, the score *)
(* the result gives that column's label.                                   *)
C15_DominantIsMaxAndScoresPassThrough ==
    phase = "done"
        => /\ ~ out_val.a.exc
           /\ \E i \in 1..Len(InResults) :
                 /\ InResults[i].label = out_val.a.label
                 /\ InResults[i].score = out_val.a.score
           /\ \A j \in 1..Len(InResults) : InResults[j].score <= out_val.a.score
           /\ out_val.a.results = InResults
           /\ out_val.data.emotion_label = out_val.a.label
           /\ out_val.data.confidence_score = out_val.a.score
           /\ DOMAIN out_val.data.scores = Labels
           /\ \A i \in 1..Len(InResults) :
                 out_val.data.scores[InResults[i].label] = InResults[i].score

(* C15 witness: the largest score is not the first entry of the result and *)
(* the scores differ between labels                                        *)
C15_Witness ==
    /\ phase = "done"
    /\ InResults[1].score < out_val.a.score
    /\ out_val.a.label = "fear"
    /\ out_val.data.scores["fear"] = MaxScore
    /\ out_val.data.scores["joy"] = 1
    /\ out_val.data.scores["neutral"] = 2

----------------------------------------------------------------------------
(* get_emotion_content.  A label is a sequence of characters, so that      *)
(* emotion.lower() and the comparison with the keys of emotion_data act on *)
(* the characters.                                                         *)

UpperChars == << "A", "B", "C", "D", "E", "F", "G", "H", "I", "J", "K", "L", "M",
                "N", "O", "P", "Q", "R", "S", "T", "U", "V", "W", "X", "Y", "Z" >>
LowerChars == << "a", "b", "c", "d", "e", "f", "g", "h", "i", "j", "k", "l", "m",
                "n", "o", "p", "q", "r", "s", "t", "u", "v", "w", "x", "y", "z" >>

(* str.lower(), character by character *)
LowerChar(c) ==
    IF \E i \in 1..Len(UpperChars) : UpperChars[i] = c
    THEN LowerChars[CHOOSE i \in 1..Len(UpperChars) : UpperChars[i] = c]
    ELSE c

str_lower(s) == [ i \in 1..Len(s) |-> LowerChar(s[i]) ]

(* str.upper() and str.capitalize(), used to spell the labels handed in *)
UpperChar(c) ==
    IF \E i \in 1..Len(LowerChars) : LowerChars[i] = c
    THEN UpperChars[CHOOSE i \in 1..Len(LowerChars) : LowerChars[i] = c]
    ELSE c

str_upper(s) == [ i \in 1..Len(s) |-> UpperChar(s[i]) ]

str_capitalize(s) == [ i \in 1..Len(s) |-> IF i = 1 THEN UpperChar(s[i]) ELSE LowerChar(s[i]) ]

(* the keys of emotion_data *)
Key_joy == << "j", "o", "y" >>
Key_sadness == << "s", "a", "d", "n", "e", "s", "s" >>
Key_anger == << "a", "n", "g", "e", "r" >>
Key_fear == << "f", "e", "a", "r" >>
Key_surprise == << "s", "u", "r", "p", "r", "i", "s", "e" >>
Key_disgust == << "d", "i", "s", "g", "u", "s", "t" >>
Key_neutral == << "n", "e", "u", "t", "r", "a", "l" >>

EmotionKeys == { Key_joy, Key_sadness, Key_anger, Key_fear, Key_surprise, Key_disgust, Key_neutral }

(* emotion_data; an emoji is written as its code point *)
emotion_data ==
    [ k \in EmotionKeys |->
        IF k = Key_joy THEN
            [ quote |-> "Your joy is your sorrow unmasked. - Kahlil Gibran",
              tip |-> "Celebrate this feeling! Consider journaling about what brought you joy today.",
              color |-> "#FFD700", emoji |-> "U+1F60A" ]
        ELSE IF k = Key_sadness THEN
            [ quote |-> "It's okay to not be okay. Be gentle with yourself today.",
              tip |-> "Try gentle movement like stretching or a short walk. Reach out to someone you trust.",
              color |-> "#4169E1", emoji |-> "U+1F499" ]
        ELSE IF k = Key_anger THEN
            [ quote |-> "Your feelings are valid. Take time to understand what you need.",
              tip |-> "Try deep breathing exercises. Count to 10 before reacting. Physical activity can help release tension.",
              color |-> "#FF6B35", emoji |-> "U+1F525" ]
        ELSE IF k = Key_fear THEN
            [ quote |-> "Courage is not the absence of fear, but the triumph over it.",
              tip |-> "Ground yourself with the 5-4-3-2-1 technique. Name 5 things you can see, 4 you can touch, 3 you can hear, 2 you can smell, 1 you can taste.",
              color |-> "#7B68EE", emoji |-> "U+1F49C" ]
        ELSE IF k = Key_surprise THEN
            [ quote |-> "Life is full of surprises. Embrace the unexpected with curiosity.",
              tip |-> "Take a moment to reflect on what surprised you and what you can learn from it.",
              color |-> "#FF8C00", emoji |-> "U+2728" ]
        ELSE IF k = Key_disgust THEN
            [ quote |-> "Listen to your boundaries. They're protecting you.",
              tip |-> "It's okay to step away from what doesn't feel right. Honor your feelings and set healthy boundaries.",
              color |-> "#32CD32", emoji |-> "U+1F33F" ]
        ELSE
            [ quote |-> "Sometimes the most productive thing you can do is rest.",
              tip |-> "Neutral days are perfectly normal. Use this calm to check in with yourself.",
              color |-> "#9E9E9E", emoji |-> "U+1F338" ] ]

(* cycle_tips *)
cycle_tips ==
    [ d \in 1..7 |->
        IF d = 1 THEN "Day 1 can be challenging. Rest is productive. Stay hydrated and be extra kind to yourself."
        ELSE IF d = 2 THEN "Your body is working hard. Gentle movement and warm compresses can help with discomfort."
        ELSE IF d = 3 THEN "You're past the hardest part. Notice if your energy is starting to shift."
        ELSE IF d = 4 THEN "Energy may be returning. Listen to your body's signals."
        ELSE IF d = 5 THEN "Notice how you're feeling. Many people start feeling lighter around now."
        ELSE IF d = 6 THEN "You might notice increased energy. It's a great time for activities you enjoy."
        ELSE "The final stretch. Reflect on your cycle and what you've learned about yourself." ]

GenericAdvice == "Remember to listen to your body and honor your needs."

get_emotion_content_case_sensitive(emotion, cycle_day) ==
    LET content == IF emotion \in EmotionKeys
                   THEN emotion_data[emotion] ELSE emotion_data[Key_neutral]
    IN  [ quote |-> content.quote, tip |-> content.tip, color |-> content.color,
          emoji |-> content.emoji,
          cycle_advice |-> IF cycle_day \in DOMAIN cycle_tips
                           THEN cycle_tips[cycle_day] ELSE GenericAdvice ]

(* content = emotion_data.get(emotion.lower(), emotion_data['neutral']);    *)
(* content['cycle_advice'] = cycle_tips.get(cycle_day, <generic advice>)    *)
get_emotion_content(emotion, cycle_day) ==
    LET content == IF str_lower(emotion) \in EmotionKeys
                   THEN emotion_data[str_lower(emotion)] ELSE emotion_data[Key_neutral]
    IN  [ quote |-> content.quote, tip |-> content.tip, color |-> content.color,
          emoji |-> content.emoji,
          cycle_advice |-> IF cycle_day \in DOMAIN cycle_tips
                           THEN cycle_tips[cycle_day] ELSE GenericAdvice ]

----------------------------------------------------------------------------
(* The harness of get_emotion_content: the 7 labels in lower case, upper   *)
(* case and capitalized, in mixed case, labels that are no key, and cycle  *)
(* days inside and outside 1..7.                                           *)

MaxContentDay == 8   \* largest cycle day handed to get_emotion_content

ContentLabels ==
    UNION { { k, str_upper(k), str_capitalize(k) } : k \in EmotionKeys }
        \cup { << "j", "O", "y" >>, << "j", "o", "y", "s" >>, << "j", "o" >>, << >>,
               << "u", "n", "k", "n", "o", "w", "n", "_", "l", "a", "b", "e", "l" >> }

ContentDays == (-1)..MaxContentDay

InitContent ==
    /\ StoreAndSessionsAtStart
    /\ in_df = << >>
    /\ in_today = Today
    /\ out_streak = 0
    /\ phase = "input"
    /\ in_arg \in [ emotion : ContentLabels, cycle_day : ContentDays ]
    /\ out_val = << >>

CallContent ==
    /\ phase = "input"
    /\ out_val' = get_emotion_content(in_arg.emotion, in_arg.cycle_day)
    /\ phase' = "done"
    /\ UNCHANGED << dbVars, sessionVars, in_df, in_today, out_streak, in_arg >>

NextContent == CallContent

SpecContent == InitContent /\ [][NextContent]_vars

----------------------------------------------------------------------------
(* Claims about get_emotion_content, under SpecContent *)

(* two characters that are the same letter, whatever their case *)
SameLetter(c, d) ==
    \/ c = d
    \/ \E i \in 1..Len(UpperChars) : {c, d} = {UpperChars[i], LowerChars[i]}

(* two labels that are equal up to the case of their letters *)
SameIgnoringCase(a, b) ==
    /\ Len(a) = Len(b)
    /\ \A i \in 1..Len(a) : SameLetter(a[i], b[i])

(* the table entry the claim names for a label *)
EntryFor(label) ==
    IF \E k \in EmotionKeys : SameIgnoringCase(label, k)
    THEN emotion_data[CHOOSE k \in EmotionKeys : SameIgnoringCase(label, k)]
    ELSE emotion_data[Key_neutral]

(* C16: get_emotion_content(label, day) returns quote, tip, color and      *)
(* emoji of the entry whose key equals the lower-cased label, or of the    *)
(* neutral entry when there is none, so labels that differ only in case    *)
(* give identical results; cycle_advice is the advice of day for day in    *)
(* 1..7 and the generic advice for every other day.                        *)
C16_ContentByLabelAndDay ==
    phase = "done"
        => /\ out_val.quote = EntryFor(in_arg.emotion).quote
           /\ out_val.tip = EntryFor(in_arg.emotion).tip
           /\ out_val.color = EntryFor(in_arg.emotion).color
           /\ out_val.emoji = EntryFor(in_arg.emotion).emoji
           /\ out_val.cycle_advice = IF in_arg.cycle_day \in 1..7
                                     THEN cycle_tips[in_arg.cycle_day] ELSE GenericAdvice
           /\ \A l \in ContentLabels :
                 SameIgnoringCase(l, in_arg.emotion)
                     => get_emotion_content(l, in_arg.cycle_day) = out_val

(* C16 witness: "JOY" on day 3 got the joy entry and the advice of day 3 *)
C16_Witness ==
    /\ phase = "done"
    /\ in_arg.emotion = << "J", "O", "Y" >>
    /\ in_arg.cycle_day = 3
    /\ out_val.color = "#FFD700"
    /\ out_val.quote = emotion_data[Key_joy].quote
    /\ out_val.cycle_advice = cycle_tips[3]

----------------------------------------------------------------------------
(* get_period_fact_of_day.  A calendar date is a year, a month and a day;  *)
(* timetuple().tm_yday is its day of the year, from 1.                     *)

(* facts; an icon is written as its code points *)
facts ==
    <<
      [ fact |-> "The average menstrual cycle lasts 28 days, but anywhere from 21 to 35 days is considered normal.",
        icon |-> "U+1F4C5",
        tip |-> "Track your cycle to understand your unique pattern!" ],
      [ fact |-> "Period blood isn't actually just blood - it's a mix of blood, tissue from the uterine lining, and vaginal secretions.",
        icon |-> "U+1F52C",
        tip |-> "Changes in color and consistency are usually normal." ],
      [ fact |-> "You lose about 2-3 tablespoons of blood during your entire period, though it can feel like much more!",
        icon |-> "U+1F4A7",
        tip |-> "Heavy bleeding (more than 80ml) should be discussed with a doctor." ],
      [ fact |-> "Period cramps happen because your uterus contracts to shed its lining. Prostaglandins are the chemicals responsible.",
        icon |-> "U+1F4AA",
        tip |-> "Heat, exercise, and anti-inflammatory medications can help!" ],
      [ fact |-> "Your metabolism can increase slightly during your period, which is why you might feel hungrier!",
        icon |-> "U+1F37D+U+FE0F",
        tip |-> "Listen to your body and nourish it with what it needs." ],
      [ fact |-> "PMS symptoms can start up to 2 weeks before your period and affect up to 90% of menstruating people.",
        icon |-> "U+1F9E0",
        tip |-> "Tracking your symptoms can help you prepare and cope better." ],
      [ fact |-> "Exercise during your period can actually help reduce cramps and improve your mood through endorphin release.",
        icon |-> "U+1F3C3+U+200D+U+2640+U+FE0F",
        tip |-> "Even gentle movement like walking or stretching counts!" ],
      [ fact |-> "The first day of your period is considered Day 1 of your menstrual cycle.",
        icon |-> "U+1F31F",
        tip |-> "This is when hormones are at their lowest before starting to rise again." ],
      [ fact |-> "Chocolate cravings during your period are real! Your body needs more magnesium, and chocolate is rich in it.",
        icon |-> "U+1F36B",
        tip |-> "Dark chocolate is a great source of magnesium and iron." ],
      [ fact |-> "Your sense of smell can be heightened during certain phases of your menstrual cycle.",
        icon |-> "U+1F443",
        tip |-> "This is linked to hormonal changes throughout your cycle." ],
      [ fact |-> "Period pain that interferes with daily activities could be a sign of endometriosis or other conditions.",
        icon |-> "U+26A0+U+FE0F",
        tip |-> "Don't ignore severe pain - consult a healthcare provider." ],
      [ fact |-> "Your period can affect your sleep quality due to hormonal fluctuations, especially progesterone levels.",
        icon |-> "U+1F634",
        tip |-> "Prioritize rest and maintain good sleep hygiene during your cycle." ],
      [ fact |-> "The menstrual cycle is divided into 4 phases: menstruation, follicular, ovulation, and luteal.",
        icon |-> "U+1F504",
        tip |-> "Each phase has unique hormonal patterns and potential mood effects." ],
      [ fact |-> "Stress can affect your menstrual cycle, potentially causing it to be late, early, or skipped entirely.",
        icon |-> "U+1F9D8+U+200D+U+2640+U+FE0F",
        tip |-> "Stress management techniques can help regulate your cycle." ],
      [ fact |-> "Period products have evolved significantly - from pads and tampons to menstrual cups and period underwear!",
        icon |-> "U+1F338",
        tip |-> "Find what works best for your body and lifestyle." ],
      [ fact |-> "Your energy levels naturally fluctuate throughout your cycle - it's not just in your head!",
        icon |-> "U+26A1",
        tip |-> "Plan important tasks during your high-energy phases when possible." ],
      [ fact |-> "The color of your period blood can tell you things about your health - bright red is fresh, dark is older blood.",
        icon |-> "U+1F3A8",
        tip |-> "Very pale or gray discharge should be checked by a doctor." ],
      [ fact |-> "You can still get pregnant during your period, though it's less likely. Ovulation timing varies!",
        icon |-> "U+1F4A1",
        tip |-> "Use contraception consistently if pregnancy prevention is important." ],
      [ fact |-> "Orgasms can help relieve menstrual cramps by releasing endorphins and relaxing the uterine muscles.",
        icon |-> "U+1F495",
        tip |-> "Self-care comes in many forms - do what feels right for you!" ],
      [ fact |-> "The average person will menstruate for about 7 years of their lifetime!",
        icon |-> "U+23F0",
        tip |-> "That's why understanding and tracking your cycle is so valuable." ],
      [ fact |-> "Hydration is extra important during your period - it can help reduce bloating and headaches.",
        icon |-> "U+1F4A6",
        tip |-> "Aim for at least 8 glasses of water throughout the day." ],
      [ fact |-> "Iron levels can drop during menstruation due to blood loss, which may cause fatigue.",
        icon |-> "U+1F96C",
        tip |-> "Eat iron-rich foods like leafy greens, beans, and lean meats." ],
      [ fact |-> "Period apps and trackers can help predict your next period and identify patterns in your cycle.",
        icon |-> "U+1F4F1",
        tip |-> "You're already doing this - great job taking charge of your health!" ],
      [ fact |-> "Hormonal birth control works by preventing ovulation, which is why some people don't get periods on it.",
        icon |-> "U+1F48A",
        tip |-> "Talk to your doctor about what's right for your body." ],
      [ fact |-> "Mood changes during your cycle are linked to fluctuating levels of estrogen and progesterone.",
        icon |-> "U+1F3AD",
        tip |-> "Tracking your moods can help you understand and prepare for these changes." ],
      [ fact |-> "Ancient cultures celebrated menstruation as a sign of fertility and feminine power.",
        icon |-> "U+1F3DB+U+FE0F",
        tip |-> "Your body is capable of amazing things!" ],
      [ fact |-> "The word 'menstruation' comes from Latin 'mensis' meaning 'month' - linked to lunar cycles.",
        icon |-> "U+1F319",
        tip |-> "Many cultures have connected menstrual cycles to moon phases." ],
      [ fact |-> "Everyone's period is different - what's normal for you might not be normal for someone else.",
        icon |-> "U+2728",
        tip |-> "Trust your body and speak up if something feels wrong." ],
      [ fact |-> "Fiber-rich foods can help with period symptoms by regulating hormones and reducing bloating.",
        icon |-> "U+1F966",
        tip |-> "Include whole grains, fruits, and vegetables in your diet." ],
      [ fact |-> "Your pain tolerance can actually decrease during menstruation due to hormonal changes.",
        icon |-> "U+1F321+U+FE0F",
        tip |-> "Be extra gentle with yourself during this time." ],
      [ fact |-> "Regular exercise can help regulate your menstrual cycle and reduce PMS symptoms.",
        icon |-> "U+1F938+U+200D+U+2640+U+FE0F",
        tip |-> "Find activities you enjoy to make it sustainable long-term." ]
    >>

IsLeapYear(y) == (y % 4 = 0 /\ y % 100 # 0) \/ y % 400 = 0

DaysInMonth(y, m) ==
    IF m = 2 THEN (IF IsLeapYear(y) THEN 29 ELSE 28)
    ELSE IF m \in {4, 6, 9, 11} THEN 30 ELSE 31

RECURSIVE DaysBeforeMonth(_, _)
DaysBeforeMonth(y, m) ==
    IF m = 1 THEN 0 ELSE DaysBeforeMonth(y, m - 1) + DaysInMonth(y, m - 1)

tm_yday(d) == DaysBeforeMonth(d.year, d.month) + d.day

get_period_fact_of_day_by_month_day(today) ==
    LET day_of_year == today.day
        fact_index == day_of_year % Len(facts)
    IN  facts[fact_index + 1]

(* day_of_year = date.today().timetuple().tm_yday;                         *)
(* fact_index = day_of_year % len(facts); return facts[fact_index]         *)
get_period_fact_of_day(today) ==
    LET day_of_year == tm_yday(today)
        fact_index == day_of_year % Len(facts)
    IN  facts[fact_index + 1]

----------------------------------------------------------------------------
(* The harness of get_period_fact_of_day: every date of a common year and  *)
(* of a leap year.                                                         *)

FactYears == { 2023, 2024 }

FactDates ==
    { d \in [ year : FactYears, month : 1..12, day : 1..31 ] :
        d.day <= DaysInMonth(d.year, d.month) }

InitFact ==
    /\ StoreAndSessionsAtStart
    /\ in_df = << >>
    /\ in_today = Today
    /\ out_streak = 0
    /\ phase = "input"
    /\ in_arg \in FactDates
    /\ out_val = << >>

CallFact ==
    /\ phase = "input"
    /\ out_val' = get_period_fact_of_day(in_arg)
    /\ phase' = "done"
    /\ UNCHANGED << dbVars, sessionVars, in_df, in_today, out_streak, in_arg >>

NextFact == CallFact

SpecFact == InitFact /\ [][NextFact]_vars

----------------------------------------------------------------------------
(* Claims about get_period_fact_of_day, under SpecFact *)

(* the day of the year of d: the number of dates of d's year up to d *)
DayOfYear(d) ==
    Cardinality({ e \in FactDates :
                    /\ e.year = d.year
                    /\ (e.month < d.month \/ (e.month = d.month /\ e.day <= d.day)) })

(* C17: get_period_fact_of_day returns the fact at index (day_of_year mod  *)
(* N) of the list of N facts; a call on the same calendar date, and a call *)
(* on a date whose day of the year differs by exactly N, returns the same  *)
(* fact.                                                                   *)
C17_FactByDayOfYearModN ==
    phase = "done"
        => /\ out_val = facts[(DayOfYear(in_arg) % Len(facts)) + 1]
           /\ \A d \in FactDates :
                 (\/ d = in_arg
                  \/ tm_yday(d) = tm_yday(in_arg) + Len(facts)
                  \/ tm_yday(d) + Len(facts) = tm_yday(in_arg))
                     => get_period_fact_of_day(d) = out_val

(* C17 witness: 1 March of a leap year, day 61 of the year, gave the fact  *)
(* at index 61 mod 31 = 30, the last of the list                           *)
C17_Witness ==
    /\ phase = "done"
    /\ in_arg = [ year |-> 2024, month |-> 3, day |-> 1 ]
    /\ Len(facts) = 31
    /\ out_val = facts[31]

----------------------------------------------------------------------------
(* The CSV export.  A text is a sequence of tokens: the characters that    *)
(* matter to the CSV format (comma, double quote, line feed, space, point, *)
(* the digits) and words that hold none of them.                           *)

DigitChars == << "0", "1", "2", "3", "4", "5", "6", "7", "8", "9" >>

(* str(n) of a natural number *)
RECURSIVE Digits(_)
Digits(n) ==
    IF n < 10 THEN << DigitChars[n + 1] >>
    ELSE Digits(n \div 10) \o << DigitChars[(n % 10) + 1] >>

(* repr of a score held in tenths: 4 is 0.4, 10 is 1.0 *)
FloatText(c) == Digits(c \div 10) \o << "." >> \o Digits(c % 10)

Date_Display_date_only(ts) == Digits(dt_date(ts))

(* df['Date'].dt.strftime('%Y-%m-%d %H:%M'): the date, a space, the time   *)
(* of day to the minute.  A slot of the model is a whole minute, as the    *)
(* times st.time_input yields are.                                         *)
Date_Display(ts) == Digits(dt_date(ts)) \o << " " >> \o Digits(ts % SlotsPerDay)

DisplayHeader ==
    << << "Date & Time" >>, << "Period Day" >>, << "Summary" >>, << "Emotion Label" >>,
       << "Confidence Score" >>, << "Joy_Score" >>, << "Sadness_Score" >>,
       << "Anger_Score" >>, << "Fear_Score" >>, << "Surprise_Score" >>,
       << "Disgust_Score" >>, << "Neutral_Score" >> >>

(* a row of display_df as to_csv writes its values, in display_columns order *)
DisplayFields(r) ==
    << Date_Display(r.Date), Digits(r.Period_Day), r.Summary, << r.Emotion_Label >>,
       FloatText(r.Confidence_Score) >>
        \o [ i \in 1..7 |-> FloatText(r.Scores[LabelOrder[i]]) ]

(* csv.QUOTE_MINIMAL: a field is quoted when it holds the delimiter, the   *)
(* quote character or a line break, and its quote characters are doubled   *)
NeedsQuote(field) == \E i \in 1..Len(field) : field[i] \in { ",", "\"", "\n", "\r" }

RECURSIVE DoubleQuotes(_)
DoubleQuotes(field) ==
    IF field = << >> THEN << >>
    ELSE (IF Head(field) = "\"" THEN << "\"", "\"" >> ELSE << Head(field) >>)
            \o DoubleQuotes(Tail(field))

CsvField(field) ==
    IF NeedsQuote(field) THEN << "\"" >> \o DoubleQuotes(field) \o << "\"" >> ELSE field

RECURSIVE CsvLine(_)
CsvLine(fields) ==
    IF Len(fields) = 1 THEN CsvField(fields[1]) \o << "\n" >>
    ELSE CsvField(Head(fields)) \o << "," >> \o CsvLine(Tail(fields))

RECURSIVE CsvLines(_, _)
CsvLines(df, i) ==
    IF i > Len(df) THEN << >>
    ELSE CsvLine(DisplayFields(df[i])) \o CsvLines(df, i + 1)

(* display_df.to_csv(index=False): the header, then the rows in the order  *)
(* of the history                                                          *)
to_csv(df) == CsvLine(DisplayHeader) \o CsvLines(df, 1)

----------------------------------------------------------------------------
(* The harness of the export: non-empty histories, newest first, whose     *)
(* summaries hold commas, quotes and line breaks.                          *)

ExportSummaries ==
    { << "cramps" >>,
      << "tired", ",", " ", "\"", "sad", "\"" >>,
      << "better", "\n", "today" >> }

ExportTimestamps ==
    { dt_combine(Today, 0), dt_combine(Today, SlotsPerDay - 1), dt_combine(Today - 1, SlotsPerDay - 1) }

ExportRow(ts, summary, label) ==
    [ Date |-> ts, Period_Day |-> IF label = "joy" THEN 1 ELSE 7, Summary |-> summary,
      Emotion_Label |-> label, Confidence_Score |-> IF label = "joy" THEN 10 ELSE 4,
      Scores |-> [ l \in Labels |-> IF l = label THEN (IF label = "joy" THEN 10 ELSE 4) ELSE 0 ] ]

ExportRows ==
    { ExportRow(ts, s, l) : ts \in ExportTimestamps, s \in ExportSummaries, l \in { "joy", "sadness" } }

ExportHistories ==
    { h \in UNION { [ 1..n -> ExportRows ] : n \in 1..MaxLen } :
        \A i \in 1..(Len(h) - 1) : h[i].Date >= h[i + 1].Date }

InitExport ==
    /\ StoreAndSessionsAtStart
    /\ in_df \in ExportHistories
    /\ in_today = Today
    /\ out_streak = 0
    /\ phase = "input"
    /\ in_arg = << >>
    /\ out_val = << >>

CallExport ==
    /\ phase = "input"
    /\ out_val' = to_csv(in_df)
    /\ phase' = "done"
    /\ UNCHANGED << dbVars, sessionVars, in_df, in_today, out_streak, in_arg >>

NextExport == CallExport

SpecExport == InitExport /\ [][NextExport]_vars

----------------------------------------------------------------------------
(* Claims about the CSV export, under SpecExport *)

(* reading a CSV text back.  A token lies inside a quoted field when an    *)
(* odd number of quote characters precedes it; rows end at the line feeds  *)
(* and fields at the commas that lie outside quoted fields.                *)
QuotesBefore(text, i) == Cardinality({ j \in 1..(i - 1) : text[j] = "\"" })

Breaks(text, tok) ==
    { i \in 1..Len(text) : text[i] = tok /\ QuotesBefore(text, i) % 2 = 0 }

(* the k-th smallest member of a set of positions *)
Nth(S, k) == CHOOSE i \in S : Cardinality({ j \in S : j <= i }) = k

(* the pieces of text[from..to] between the break positions of B *)
Pieces(text, from, to, B) ==
    LET inner == { i \in B : from <= i /\ i <= to }
        n == Cardinality(inner)
        start(k) == IF k = 1 THEN from ELSE Nth(inner, k - 1) + 1
        stop(k) == IF k = n + 1 THEN to ELSE Nth(inner, k) - 1
    IN  [ k \in 1..(n + 1) |-> [ from |-> start(k), to |-> stop(k) ] ]

(* a doubled quote character stands for one *)
RECURSIVE UndoubleQuotes(_)
UndoubleQuotes(s) ==
    IF s = << >> THEN << >>
    ELSE IF Len(s) >= 2 /\ s[1] = "\"" /\ s[2] = "\""
         THEN << "\"" >> \o UndoubleQuotes(SubSeq(s, 3, Len(s)))
         ELSE << s[1] >> \o UndoubleQuotes(Tail(s))

(* the value of the field text[from..to]: a quoted field loses its quotes *)
FieldValue(text, from, to) ==
    IF from <= to /\ text[from] = "\""
    THEN UndoubleQuotes(SubSeq(text, from + 1, to - 1))
    ELSE SubSeq(text, from, to)

(* the rows of a CSV text, each a sequence of fields; every row ends with  *)
(* a line feed                                                             *)
ParseCsv(text) ==
    LET ends == Breaks(text, "\n")
        commas == Breaks(text, ",")
        rowFrom(k) == IF k = 1 THEN 1 ELSE Nth(ends, k - 1) + 1
        rowTo(k) == Nth(ends, k) - 1
    IN  [ k \in 1..Cardinality(ends) |->
            LET ps == Pieces(text, rowFrom(k), rowTo(k), commas)
            IN  [ f \in 1..Len(ps) |-> FieldValue(text, ps[f].from, ps[f].to) ] ]

(* the number a sequence of digits writes *)
RECURSIVE ParseInt(_)
ParseInt(ds) ==
    IF ds = << >> THEN 0
    ELSE ParseInt(SubSeq(ds, 1, Len(ds) - 1)) * 10
            + ((CHOOSE k \in 1..10 : DigitChars[k] = ds[Len(ds)]) - 1)

(* the part of a text before and after the first token tok *)
Before(s, tok) ==
    IF \E i \in 1..Len(s) : s[i] = tok
    THEN SubSeq(s, 1, (CHOOSE i \in 1..Len(s) : s[i] = tok /\ \A j \in 1..(i - 1) : s[j] # tok) - 1)
    ELSE s

After(s, tok) ==
    IF \E i \in 1..Len(s) : s[i] = tok
    THEN SubSeq(s, (CHOOSE i \in 1..Len(s) : s[i] = tok /\ \A j \in 1..(i - 1) : s[j] # tok) + 1, Len(s))
    ELSE << >>

(* a date and time read back: a text without a time is midnight *)
ParseDateTime(s) == dt_combine(ParseInt(Before(s, " ")), ParseInt(After(s, " ")))

(* a score read back, in tenths *)
ParseFloat(s) == ParseInt(Before(s, ".")) * 10 + ParseInt(After(s, "."))

(* the (date, cycle_day, emotion_label, confidence_score) tuples of the    *)
(* data rows of a CSV text, by the columns of the header                   *)
ParsedTuples(text) ==
    LET rows == ParseCsv(text)
        col(name) == CHOOSE c \in 1..Len(rows[1]) : rows[1][c] = << name >>
    IN  [ i \in 1..(Len(rows) - 1) |->
            << ParseDateTime(rows[i + 1][col("Date & Time")]),
               ParseInt(rows[i + 1][col("Period Day")]),
               rows[i + 1][col("Emotion Label")],
               ParseFloat(rows[i + 1][col("Confidence Score")]) >> ]

HistoryTuples(df) ==
    [ i \in 1..Len(df) |->
        << df[i].Date, df[i].Period_Day, << df[i].Emotion_Label >>, df[i].Confidence_Score >> ]

(* C18: parsing the exported CSV back recovers, for every entry and in the *)
(* row order of the history, the (date, cycle_day, emotion_label,          *)
(* confidence_score) tuple the history holds.                              *)
C18_CsvRoundTrip ==
    phase = "done" => ParsedTuples(out_val) = HistoryTuples(in_df)

(* C18 witness: three entries exported, two of them at different times of  *)
(* the same day, with summaries that hold a comma and quotes, and a line   *)
(* break                                                                   *)
C18_Witness ==
    /\ phase = "done"
    /\ Len(in_df) = 3
    /\ dt_date(in_df[1].Date) = dt_date(in_df[2].Date)
    /\ in_df[1].Date # in_df[2].Date
    /\ in_df[1].Date % SlotsPerDay # 0
    /\ in_df[1].Summary = << "tired", ",", " ", "\"", "sad", "\"" >>
    /\ in_df[2].Summary = << "better", "\n", "today" >>
    /\ in_df[1].Emotion_Label # in_df[3].Emotion_Label
    /\ Len(ParseCsv(out_val)) = 4

----------------------------------------------------------------------------
(* register_user.  Texts are sequences of characters: the error text of a  *)
(* failed INSERT holds the name of the violated constraint and the value   *)
(* that was rejected, and the except branch searches the lower-cased text. *)

(* the text of a unique violation, around the constraint, column and value *)
Text_duplicate_key ==
    << "d", "u", "p", "l", "i", "c", "a", "t", "e", " ", "k", "e", "y", " ", "v", "a",
       "l", "u", "e", " ", "v", "i", "o", "l", "a", "t", "e", "s", " ", "u", "n", "i",
       "q", "u", "e", " ", "c", "o", "n", "s", "t", "r", "a", "i", "n", "t", " ",
       "\"" >>

Text_detail_key ==
    << "\"", "\n", "D", "E", "T", "A", "I", "L", ":", " ", " ", "K", "e", "y", " ",
       "(" >>

Text_is ==
    << ")", "=", "(" >>

Text_already_exists ==
    << ")", " ", "a", "l", "r", "e", "a", "d", "y", " ", "e", "x", "i", "s", "t", "s",
       ".", "\n" >>

(* the text of a failure that is no unique violation *)
Text_other_failure ==
    << "v", "a", "l", "u", "e", " ", "t", "o", "o", " ", "l", "o", "n", "g", " ", "f",
       "o", "r", " ", "t", "y", "p", "e", " ", "c", "h", "a", "r", "a", "c", "t", "e",
       "r", " ", "v", "a", "r", "y", "i", "n", "g", "(", "1", "0", "0", ")", "\n" >>

(* the constraints of `username VARCHAR(50) UNIQUE` and `email VARCHAR(100) UNIQUE` *)
Text_users_username_key ==
    << "u", "s", "e", "r", "s", "_", "u", "s", "e", "r", "n", "a", "m", "e", "_", "k",
       "e", "y" >>

Text_users_email_key ==
    << "u", "s", "e", "r", "s", "_", "e", "m", "a", "i", "l", "_", "k", "e", "y" >>

(* the texts the except branch looks for *)
Word_duplicate_key ==
    << "d", "u", "p", "l", "i", "c", "a", "t", "e", " ", "k", "e", "y" >>

Word_username ==
    << "u", "s", "e", "r", "n", "a", "m", "e" >>

Word_email ==
    << "e", "m", "a", "i", "l" >>

(* usernames and emails handed in *)
Name_bob ==
    << "b", "o", "b" >>

Name_eve ==
    << "E", "v", "e" >>

Email_bob ==
    << "b", "o", "b", "@", "x", ".", "i", "o" >>

Email_info ==
    << "i", "n", "f", "o", "@", "x", ".", "i", "o" >>

Email_username ==
    << "u", "s", "e", "r", "n", "a", "m", "e", "@", "x", ".", "i", "o" >>

(* word in text: the substring test of Python's `in` *)
Contains(text, word) ==
    \E k \in 0..(Len(text) - Len(word)) : \A j \in 1..Len(word) : text[k + j] = word[j]

(* str(e) of the UniqueViolation psycopg2 raises *)
UniqueViolationText(constraint, column, value) ==
    Text_duplicate_key \o constraint \o Text_detail_key \o column \o Text_is
        \o value \o Text_already_exists

(* cur.execute of the INSERT INTO users: the unique index on username is   *)
(* checked before the one on email; other_failure stands for any other     *)
(* error of the statement                                                  *)
ExecuteInsertUser(users, new_username, new_email, other_failure) ==
    IF other_failure
    THEN [ raised |-> TRUE, text |-> Text_other_failure ]
    ELSE IF \E r \in users : r.username = new_username
    THEN [ raised |-> TRUE,
           text |-> UniqueViolationText(Text_users_username_key, Word_username, new_username) ]
    ELSE IF \E r \in users : r.email = new_email
    THEN [ raised |-> TRUE,
           text |-> UniqueViolationText(Text_users_email_key, Word_email, new_email) ]
    ELSE [ raised |-> FALSE, text |-> << >> ]

(* register_user: the result (success, user_id or message or raw text) and *)
(* the users table it leaves; the except branch rolls the INSERT back      *)
register_user(users, next_id, new_username, new_email, other_failure) ==
    LET res == ExecuteInsertUser(users, new_username, new_email, other_failure)
        low == str_lower(res.text)
    IN  IF ~ res.raised
        THEN [ success |-> TRUE, user_id |-> next_id, message |-> "", raw |-> << >>,
               users |-> users \cup { [ id |-> next_id, username |-> new_username,
                                        email |-> new_email ] } ]
        ELSE IF Contains(low, Word_duplicate_key) /\ Contains(low, Word_username)
        THEN [ success |-> FALSE, user_id |-> 0, message |-> "Username already exists",
               raw |-> << >>, users |-> users ]
        ELSE IF Contains(low, Word_duplicate_key) /\ Contains(low, Word_email)
        THEN [ success |-> FALSE, user_id |-> 0, message |-> "Email already exists",
               raw |-> << >>, users |-> users ]
        ELSE [ success |-> FALSE, user_id |-> 0, message |-> "", raw |-> res.text,
               users |-> users ]

----------------------------------------------------------------------------
(* The harness of register_user: users tables of up to MaxUsers rows with  *)
(* unique usernames and emails, and a registration.                        *)

MaxUsers == 2        \* most rows of the users table before the registration

RegUsernames == { Name_bob, Name_eve }
RegEmails == { Email_bob, Email_info, Email_username }

(* the rows with ids 1..n, one per username, each email used once *)
UserTables ==
    { T \in SUBSET [ id : 1..MaxUsers, username : RegUsernames, email : RegEmails ] :
        /\ Cardinality(T) <= MaxUsers
        /\ { r.id : r \in T } = 1..Cardinality(T)
        /\ \A r, q \in T : (r.id = q.id \/ r.username = q.username \/ r.email = q.email)
                               => r = q }

InitRegister ==
    /\ StoreAndSessionsAtStart
    /\ in_df = << >>
    /\ in_today = Today
    /\ out_streak = 0
    /\ phase = "input"
    /\ in_arg \in { a \in [ users : UserTables, next_id : 1..(MaxUsers + 1),
                            username : RegUsernames, email : RegEmails,
                            other_failure : BOOLEAN ] :
                      a.next_id = Cardinality(a.users) + 1 }
    /\ out_val = << >>

CallRegister ==
    /\ phase = "input"
    /\ out_val' = register_user(in_arg.users, in_arg.next_id, in_arg.username,
                                in_arg.email, in_arg.other_failure)
    /\ phase' = "done"
    /\ UNCHANGED << dbVars, sessionVars, in_df, in_today, out_streak, in_arg >>

NextRegister == CallRegister

SpecRegister == InitRegister /\ [][NextRegister]_vars

----------------------------------------------------------------------------
(* Claims about register_user, under SpecRegister *)

UsernameTaken == \E r \in in_arg.users : r.username = in_arg.username
EmailTaken == \E r \in in_arg.users : r.email = in_arg.email

(* C19 as claimed: register_user returns (True, new row id) when the row   *)
(* is inserted; on failure the users table is unchanged and the result is  *)
(* "Username already exists" when the username is taken, "Email already    *)
(* exists" when only the email is taken, whatever the email, and the raw   *)
(* error text for any other failure.                                       *)
C19_TypedRegistrationFailure ==
    phase = "done"
        => IF ~ in_arg.other_failure /\ ~ UsernameTaken /\ ~ EmailTaken
           THEN /\ out_val.success
                /\ out_val.user_id = in_arg.next_id
                /\ out_val.users = in_arg.users
                       \cup { [ id |-> in_arg.next_id, username |-> in_arg.username,
                                email |-> in_arg.email ] }
           ELSE /\ ~ out_val.success
                /\ out_val.users = in_arg.users
                /\ IF in_arg.other_failure
                   THEN out_val.message = "" /\ out_val.raw = Text_other_failure
                   ELSE IF UsernameTaken
                        THEN out_val.message = "Username already exists"
                        ELSE out_val.message = "Email already exists"

----------------------------------------------------------------------------
(* The snapshot across a change of user in one browser session *)

(* C21 as claimed: in every state, the rows of the history snapshot a       *)
(* logged-in session holds (the rows behind the sidebar statistics, the    *)
(* charts, the table and the export) were loaded for the user who is       *)
(* logged in now, also when another user was logged in before in the same  *)
(* session.                                                                *)
C21_SnapshotOwnedByCurrentUser ==
    \A s \in Sessions :
        (username[s] # NoUser /\ has_history[s] /\ history_df[s] # EmptyFrame)
            => history_user[s] = username[s]

----------------------------------------------------------------------------
(* Failures and the shared connection *)

(* session s comes back from an operation on the connection that can fail: *)
(* load_users_from_db, load_user_history (the first load of the dashboard, *)
(* or the reload after an insert), or the except branch after the failed   *)
(* DELETE of a bulk wipe or the failed INSERT of a submission              *)
OperationReturns(s) ==
    \/ LoadUsers(s)
    \/ /\ ~ has_history[s]
       /\ username'[s] # NoUser
       /\ View(s) \/ \E u \in Users : Login(s, u)
    \/ InsertReload(s)
    \/ DeleteRollback(s)
    \/ InsertRollback(s)

(* C22 as claimed: when one of these operations has failed, the connection *)
(* is rolled back by the time the operation returns, so the next statement *)
(* on the connection is not issued in an aborted transaction.              *)
C22_FailedOperationLeavesNoAbortedTransaction ==
    [][ \A s \in Sessions : OperationReturns(s) => txn' = "ok" ]_vars

----------------------------------------------------------------------------
(* The entry form and the row a submission writes *)

min_value == 1       \* st.slider("Cycle Day", min_value=1, ...)
max_value == 7       \* st.slider("Cycle Day", ..., max_value=7, ...)
max_chars == 300     \* st.text_area(..., max_chars=300, ...)

MaxPosition == 8     \* slider positions tried, from 0
MaxTyped == 301      \* longest text typed into the text area

(* st.slider: the value the widget returns lies between min_value and      *)
(* max_value, wherever the handle is put                                   *)
slider(position) ==
    IF position < min_value THEN min_value
    ELSE IF position > max_value THEN max_value
    ELSE position

text_area_unlimited(typed) == typed

(* st.text_area with max_chars: the widget takes no character beyond the   *)
(* first max_chars                                                         *)
text_area(typed) ==
    IF Len(typed) <= max_chars THEN typed ELSE SubSeq(typed, 1, max_chars)

SliderPositions == 0..MaxPosition
TypedTexts == { [ i \in 1..n |-> "a" ] : n \in {0, 1, max_chars, MaxTyped} }

(* results of the classifier: each of the 7 labels once, one label or two  *)
(* labels holding the largest score                                        *)
SubmitResults ==
    { [ i \in 1..7 |-> [ label |-> order[i],
                         score |-> IF order[i] \in tops THEN MaxScore ELSE 1 ] ] :
        order \in ResultOrders,
        tops \in { { l } : l \in Labels } \cup { { "fear", "neutral" } } }

(* a session in which a user is logged in and looks at the form *)
InitSubmit ==
    /\ committed = {}
    /\ working = {}
    /\ txn = "ok"
    /\ nextId = 1
    /\ \E u \in Users :
          /\ username = [ s \in Sessions |-> IF s = "s1" THEN u ELSE NoUser ]
          /\ history_user = [ s \in Sessions |-> IF s = "s1" THEN u ELSE NoUser ]
    /\ has_history = [ s \in Sessions |-> s = "s1" ]
    /\ history_df = [ s \in Sessions |-> EmptyFrame ]
    /\ pc = [ s \in Sessions |-> "idle" ]
    /\ req = [ s \in Sessions |-> "widget" ]
    /\ msgs = [ s \in Sessions |-> {} ]
    /\ sidebar = [ s \in Sessions |-> NoStats ]
    /\ inserted = [ s \in Sessions |-> 0 ]
    /\ in_df = << >>
    /\ in_today = Today
    /\ out_streak = 0
    /\ phase = "input"
    /\ in_arg \in { [ position |-> p, typed |-> t,
                      outcome |-> [ raised |-> FALSE, out |-> << r >> ] ] :
                        p \in SliderPositions, t \in TypedTexts, r \in SubmitResults }
    /\ out_val = << >>

(* the form is submitted: the widgets give period_day and user_summary,    *)
(* and when user_summary is not empty the handler classifies it and builds *)
(* the data tuple of the INSERT; out_val holds the rows written            *)
CallSubmit ==
    /\ phase = "input"
    /\ LET period_day == slider(in_arg.position)
           user_summary == text_area(in_arg.typed)
           a == analyze_emotion(in_arg.outcome)
       IN  out_val' = IF user_summary = << >> \/ a.exc \/ RaisesKeyError(a.results)
                      THEN << >>
                      ELSE << NewRow(nextId, username["s1"], dt_combine(Today, 0),
                                     period_day, user_summary, a) >>
    /\ phase' = "done"
    /\ UNCHANGED << dbVars, sessionVars, in_df, in_today, out_streak, in_arg >>

NextSubmit == CallSubmit

SpecSubmit == InitSubmit /\ [][NextSubmit]_vars

----------------------------------------------------------------------------
(* Claims about the row of a submission, under SpecSubmit *)

(* C23: every row a submission writes to journal_entries has period_day in *)
(* 1..7, a summary that is not empty and has at most 300 characters, the   *)
(* authenticated username as user_id, one of the 7 labels as emotion_label *)
(* and, as confidence_score, the largest of its seven per-emotion scores,  *)
(* which is the score in the column of emotion_label.                      *)
C23_WrittenRowWellFormed ==
    phase = "done" =>
        \A k \in 1..Len(out_val) :
            LET r == out_val[k]
            IN  /\ r.period_day \in 1..7
                /\ r.summary # << >>
                /\ Len(r.summary) <= 300
                /\ r.user_id = username["s1"]
                /\ r.user_id \in Users
                /\ r.emotion_label \in Labels
                /\ DOMAIN r.scores = Labels
                /\ \A l \in Labels : r.scores[l] <= r.confidence_score
                /\ r.scores[r.emotion_label] = r.confidence_score

(* C23 witness: bob moves the slider past its last position and types more *)
(* than 300 characters, and the classifier gives two labels the largest    *)
(* score; a row is written with day 7, 300 characters and the label fear.  *)
C23_Witness ==
    /\ phase = "done"
    /\ in_arg.position > 7
    /\ Len(in_arg.typed) > 300
    /\ Len(out_val) = 1
    /\ out_val[1].user_id = "bob"
    /\ out_val[1].period_day = 7
    /\ Len(out_val[1].summary) = 300
    /\ out_val[1].emotion_label = "fear"
    /\ out_val[1].scores["neutral"] = out_val[1].confidence_score
    /\ out_val[1].scores["joy"] < out_val[1].confidence_score

----------------------------------------------------------------------------
(* Claims about ties in get_insights, under SpecInsights *)

(* how a label is spelled *)
Spelling(l) ==
    CASE l = "joy" -> Key_joy
      [] l = "sadness" -> Key_sadness
      [] l = "anger" -> Key_anger
      [] l = "fear" -> Key_fear
      [] l = "surprise" -> Key_surprise
      [] l = "disgust" -> Key_disgust
      [] l = "neutral" -> Key_neutral

(* the place of a lower-case letter in the alphabet *)
LetterRank(c) == CHOOSE k \in 1..Len(LowerChars) : LowerChars[k] = c

(* word a comes before word b in lexicographic order *)
LexBefore(a, b) ==
    \E k \in 1..(Len(a) + 1) :
        /\ k <= Len(b)
        /\ \A j \in 1..(k - 1) : j <= Len(a) /\ a[j] = b[j]
        /\ k = Len(a) + 1 \/ (k <= Len(a) /\ LetterRank(a[k]) < LetterRank(b[k]))

(* the labels of the history that occur most often *)
TiedLabels ==
    { l \in Labels : /\ LabelCount(in_df, l) > 0
                     /\ \A m \in Labels : LabelCount(in_df, m) <= LabelCount(in_df, l) }

(* the history with its entries in the opposite order *)
Reversed(df) == [ i \in 1..Len(df) |-> df[Len(df) + 1 - i] ]

(* C24: when several labels share the highest count in a history of at     *)
(* least 3 entries, get_insights reports the tied label that comes first   *)
(* in lexicographic order, and reports the same label for the entries in   *)
(* the opposite order.                                                     *)
C24_TieGivesSmallestLabel ==
    (phase = "done" /\ Len(in_df) >= 3 /\ Cardinality(TiedLabels) > 1)
        => /\ out_val.most_common_emotion \in TiedLabels
           /\ \A l \in TiedLabels \ { out_val.most_common_emotion } :
                 LexBefore(Spelling(out_val.most_common_emotion), Spelling(l))
           /\ get_insights(Reversed(in_df)).most_common_emotion
                 = out_val.most_common_emotion

(* C24 witness: [joy, sadness, anger], each label once, gave anger, which  *)
(* is neither the first nor the last label of the history.                 *)
C24_Witness ==
    /\ phase = "done"
    /\ InLabels = << "joy", "sadness", "anger" >>
    /\ Cardinality(TiedLabels) = 3
    /\ out_val.most_common_emotion = "anger"

====
